---- MODULE Spec2Model ----
(***************************************************************************)
(* Riemersma dithering (teerapap/riemersma): the Op engine, its Hilbert    *)
(* traversal, the error history ring and the per-pixel dither step, as a   *)
(* state machine.  One step of the machine is one call, one move() or one  *)
(* return of the recursive traversal.                                      *)
(*                                                                         *)
(* float64 values are modelled exactly: a finite value is a fraction n/d   *)
(* with d > 0, a non-finite value is NaN, +Inf or -Inf.  All inputs are    *)
(* integer valued, so every rounding the code performs is decided exactly. *)
(***************************************************************************)
EXTENDS Integers, Sequences, FiniteSets, TLC

\* ---------------------------------------------------------------- bounds
MaxSide == 5
MaxQueue == 2
MaxRatio == 2
MaxRuns == 2

\* ------------------------------------------------------ program constants
dirNONE == 0
dirUP == 1
dirLEFT == 2
dirDOWN == 3
dirRIGHT == 4
NumChannels == 4
ChanMax == 65535
MaxInt32 == 2147483647
MinInt32 == (0 - MaxInt32) - 1
DefaultQueue == 16
DefaultRatio == 16

\* ------------------------------------------------------------ input sets
QueueSizes == (0 - 1)..MaxQueue
Ratios == (0 - 1)..MaxRatio
\* the sides of the rectangles tried: the small ones and the largest
Sides == {0, 1, 2, 3, MaxSide}
Builds == {"amd64", "arm64"}
Sinks == {"identity", "threshold"}
\* the source image occupies [0, MaxSide) x [0, MaxSide); sp is the source
\* offset handed to Draw (with the second, reads run past the source bounds)
SrcMax == <<MaxSide, MaxSide>>
SrcPoints == {<<0, 0>>, <<1, 2>>}
\* the command line: -size is unsigned, -depth accepts 1, 2, 4 and 8
CliQueueSizes == 0..MaxQueue
CliDepths == {1, 2, 3, 4, 8}
CliPaths == {"-", "file"}

VARIABLES
    pc,        \* "new", "ready", "dither", "done", "panic", "exit"
    via,       \* who built the Op: "none", "op", "drawer", "main"
    built,     \* the arguments NewOperation was called with
    Ratio,     \* Op.Ratio
    Weights,   \* Op.Weights
    err,       \* Op.errors.err
    head,      \* Op.errors.head
    x, y,      \* Op.x, Op.y
    build,     \* the platform the program was built for
    image,     \* the anyImage handed to Dither (sp, size, sink)
    dst,       \* the destination image: pixel -> stored colour
    level,     \* Dither's local variable level
    stack,     \* active hilbertLevel invocations, innermost last
    run,       \* Dither calls made on this Op
    calls,     \* Draw calls made so far
    entry,     \* the Op and the lengths of the logs when Dither was entered
    prev,      \* the Op, the calls and the destination when the previous Draw returned
    visits,    \* cursor at every entry of move(), in order
    dirs,      \* the direction argument of every move(), in order
    dithered,  \* every DitherPixel call: pixel, accumulated error, result
    rotated,   \* every value handed to Rotate, in order
    cli        \* the command line: paths, the output file chosen, what was written

vars == <<pc, via, built, Ratio, Weights, err, head, x, y, build, image, dst,
          level, stack, run, calls, entry, prev, visits, dirs, dithered,
          rotated, cli>>

\* ------------------------------------------------------------- float64
Fin(n, d) == [k |-> "fin", n |-> n, d |-> d]
NaN == [k |-> "nan", n |-> 0, d |-> 1]
PInf == [k |-> "inf", n |-> 1, d |-> 1]
NInf == [k |-> "inf", n |-> 0 - 1, d |-> 1]

Sign(n) == IF n > 0 THEN 1 ELSE IF n < 0 THEN 0 - 1 ELSE 0
Abs(n) == IF n < 0 THEN 0 - n ELSE n
Min(a, b) == IF a < b THEN a ELSE b
Max(a, b) == IF a > b THEN a ELSE b

\* a + b for floats with the same denominator (the sums the code forms are
\* over integer valued products)
FAdd(a, b) ==
    IF a.k = "nan" \/ b.k = "nan" THEN NaN
    ELSE IF a.k = "inf" /\ b.k = "inf" THEN (IF a.n = b.n THEN a ELSE NaN)
    ELSE IF a.k = "inf" THEN a
    ELSE IF b.k = "inf" THEN b
    ELSE Fin(a.n + b.n, 1)

\* e * w, e an integer valued float
FMul(e, w) ==
    IF w.k = "nan" THEN NaN
    ELSE IF w.k = "inf" THEN (IF e = 0 THEN NaN ELSE IF Sign(e) = w.n THEN PInf ELSE NInf)
    ELSE Fin(e * w.n, 1)

\* a / r, r an integer valued float
FDiv(a, r) ==
    IF a.k = "nan" THEN NaN
    ELSE IF a.k = "inf" THEN
        (IF r >= 0 THEN a ELSE IF a.n = 1 THEN NInf ELSE PInf)
    ELSE IF r = 0 THEN
        (IF a.n = 0 THEN NaN ELSE IF a.n > 0 THEN PInf ELSE NInf)
    ELSE IF r > 0 THEN Fin(a.n, a.d * r)
    ELSE Fin(0 - a.n, a.d * (0 - r))

\* math.Round: nearest integer, halves away from zero
Round(f) ==
    IF f.k # "fin" THEN f
    ELSE IF f.n >= 0 THEN Fin((2 * f.n + f.d) \div (2 * f.d), 1)
    ELSE Fin(0 - (((2 * (0 - f.n)) + f.d) \div (2 * f.d)), 1)

IsZero(f) == f.k = "fin" /\ f.n = 0

\* int32(f) of an integer valued float; the conversion of a value int32
\* cannot hold is implementation-dependent: amd64 yields the minimum for
\* all of them, arm64 saturates and maps NaN to 0
ToInt32(f, b) ==
    IF f.k = "fin" THEN f.n
    ELSE IF b = "amd64" THEN MinInt32
    ELSE IF f.k = "nan" THEN 0
    ELSE IF f.n = 1 THEN MaxInt32 ELSE MinInt32

\* a + b in int32 (wrapping), for 0 <= a
Add32(a, b) ==
    IF b > MaxInt32 - a THEN MinInt32 + ((a - (MaxInt32 - b)) - 1)
    ELSE a + b

clamp(i) == IF i < 0 THEN 0 ELSE IF i > ChanMax THEN ChanMax ELSE i

RECURSIVE Pow(_, _)
Pow(b, e) == IF e = 0 THEN 1 ELSE b * Pow(b, e - 1)

RECURSIVE log2(_)
log2(value) == IF value > 1 THEN 1 + log2(value \div 2) ELSE 0

\* ------------------------------------------------------------ weights
\* natural numbers too large for a machine word: digits in base BigBase,
\* least significant first
BigBase == 10000

RECURSIVE BigCarry(_, _, _)
BigCarry(a, k, carry) ==
    IF a = <<>> THEN (IF carry = 0 THEN <<>> ELSE <<carry>>)
    ELSE LET t == a[1] * k + carry
         IN  <<t % BigBase>> \o BigCarry(Tail(a), k, t \div BigBase)

\* a * k, 1 <= k < BigBase
BigMul(a, k) == BigCarry(a, k, 0)

\* a * b^e
RECURSIVE BigTimesPow(_, _, _)
BigTimesPow(a, b, e) == IF e = 0 THEN a ELSE BigTimesPow(BigMul(a, b), b, e - 1)

RECURSIVE BigLess(_, _)
BigLess(a, b) ==
    IF Len(a) # Len(b) THEN Len(a) < Len(b)
    ELSE IF a = <<>> THEN FALSE
    ELSE IF a[Len(a)] # b[Len(b)] THEN a[Len(a)] < b[Len(b)]
    ELSE BigLess(SubSeq(a, 1, Len(a) - 1), SubSeq(b, 1, Len(b) - 1))

\* math.Round(v) for v = m^i, m = math.Exp(math.Log(ratio)/float64(size-1)),
\* ratio >= 1 and size > 1: the integer r with
\* (2r - 1)^(size-1) <= 2^(size-1) * ratio^i < (2r + 1)^(size-1)
RoundedRoot(ratio, i, size) ==
    LET target == BigTimesPow(BigTimesPow(<<1>>, 2, size - 1), ratio, i)
    IN  CHOOSE r \in 1..(ratio * ratio) :
            /\ ~BigLess(target, BigTimesPow(<<1>>, 2 * r - 1, size - 1))
            /\ BigLess(target, BigTimesPow(<<1>>, 2 * r + 1, size - 1))

\* what kind of number m is: math.Log of a negative number is NaN, of 0 is
\* -Inf; a division by float64(0) gives an infinity or NaN, never a failure
MKind(size, ratio) ==
    IF ratio < 0 THEN "nan"
    ELSE IF size = 1 THEN
        (IF ratio = 1 THEN "nan" ELSE IF ratio > 1 THEN "inf" ELSE "zero")
    ELSE IF ratio = 0 THEN "zero"
    ELSE "root"

\* math.Round(v) after i multiplications of v = 1.0 by m
RoundedV(size, ratio, i) ==
    IF i = 0 THEN Round(Fin(1, 1))
    ELSE LET k == MKind(size, ratio)
         IN  IF k = "nan" THEN NaN
             ELSE IF k = "inf" THEN PInf
             ELSE IF k = "zero" THEN Fin(0, 1)
             ELSE Fin(RoundedRoot(ratio, i, size), 1)

\* variant: v is multiplied by m before it is stored
initWeights_MultiplyFirst(size, ratio) ==
    [i \in 1..size |-> RoundedV(size, ratio, i)]

initWeights(size, ratio) ==
    [i \in 1..size |-> RoundedV(size, ratio, i - 1)]

\* --------------------------------------------------------- error list
Nil == <<>>
newErrorList(size) == [i \in 1..size |-> Nil]

\* variant: index counted back from the last write
Get_FromNewest(e, h, i) == e[((((h + Len(e)) - 1) - i) % Len(e)) + 1]

\* errorList.Get and errorList.Size on the list (e, h); e is 1-indexed here
Get(e, h, i) == e[((h + i) % Len(e)) + 1]
Size(e) == Len(e)

\* errorList.Rotate: the list and head after the call
RotateErr(e, h, val) == [e EXCEPT ![h + 1] = val]
\* variant: the write cursor is never advanced
RotateHead_Stuck(e, h) == h

RotateHead(e, h) == IF h + 1 >= Len(e) THEN 0 ELSE h + 1

\* ------------------------------------------------------------- images
\* the source picture, an NRGBA64 image: a fixed gradient
SrcAt(px, py) ==
    <<(px * 13000 + py * 7000) % (ChanMax + 1),
      (px * 5000 + py * 21000 + 30000) % (ChanMax + 1),
      (px * 29000 + py * 3000 + 50000) % (ChanMax + 1),
      ChanMax>>

NewImage(r, sp, sink) ==
    [sp |-> sp,
     size |-> <<Min(SrcMax[1] - sp[1], r[1]), Min(SrcMax[2] - sp[2], r[2])>>,
     sink |-> sink]

\* color.NRGBA64.RGBA: the channels multiplied by alpha, c * a / 0xffff
\* (the product is split so that no intermediate value leaves 31 bits)
Premul(c, a) ==
    LET p == (c \div 256) * a
        q == (c % 256) * a
    IN  256 * (p \div ChanMax) + ((256 * (p % ChanMax) + q) \div ChanMax)

RGBAOf(c) == <<Premul(c[1], c[4]), Premul(c[2], c[4]), Premul(c[3], c[4]), c[4]>>

\* color.GrayModel: (19595*r + 38470*g + 7471*b + 1<<15) >> 24
GrayY(c) ==
    LET v == RGBAOf(c)
        hi == 19595 * (v[1] \div 256) + 38470 * (v[2] \div 256) + 7471 * (v[3] \div 256)
        lo == 19595 * (v[1] % 256) + 38470 * (v[2] % 256) + 7471 * (v[3] % 256) + 32768
    IN  (hi + (lo \div 256)) \div 65536

\* the colour a color.Gray{y} reads back as
GrayBack(yy) == <<yy * 257, yy * 257, yy * 257, ChanMax>>

\* main's palette for a colour depth: numColor grays, step 0xff/(numColor-1)
GrayPalette(depth) ==
    [i \in 1..Pow(2, depth) |-> (255 \div (Pow(2, depth) - 1)) * (i - 1)]

\* color.sqDiff: ((x - y) * (x - y)) >> 2, as <<high 16 bits, low 16 bits>>
SqDiff(a, b) ==
    LET d == Abs(a - b)
        t == (d \div 2) * (d \div 2) + (d \div 2) * (d % 2)
    IN  <<t \div 65536, t % 65536>>

\* the distance color.Palette.Index minimises
Distance(c, yy) ==
    LET v == RGBAOf(c)
        w == GrayBack(yy)
        hi == SqDiff(v[1], w[1])[1] + SqDiff(v[2], w[2])[1]
                + SqDiff(v[3], w[3])[1] + SqDiff(v[4], w[4])[1]
        lo == SqDiff(v[1], w[1])[2] + SqDiff(v[2], w[2])[2]
                + SqDiff(v[3], w[3])[2] + SqDiff(v[4], w[4])[2]
    IN  <<hi + (lo \div 65536), lo % 65536>>

Nearer(d1, d2) == d1[1] < d2[1] \/ (d1[1] = d2[1] /\ d1[2] < d2[2])

\* color.Palette.Index: the first entry at the least distance
PaletteIndex(pal, c) ==
    CHOOSE i \in 1..Len(pal) :
        \A j \in 1..Len(pal) :
            /\ j < i => Nearer(Distance(c, pal[i]), Distance(c, pal[j]))
            /\ j > i => ~Nearer(Distance(c, pal[j]), Distance(c, pal[i]))

SinkDepth(sink) == IF sink = "pal1" THEN 1 ELSE IF sink = "pal2" THEN 2 ELSE 4

\* what the destination stores for a proposed colour, as read back:
\* "identity" keeps the colour, "threshold" keeps black or white per
\* channel, "gray" is image.Gray, "pal1", "pal2", "pal4" are image.Paletted
\* with main's gray palette
Quantize(sink, c) ==
    IF sink = "identity" THEN c
    ELSE IF sink = "threshold" THEN
        [j \in 1..NumChannels |-> IF c[j] < 32768 THEN 0 ELSE ChanMax]
    ELSE IF sink = "gray" THEN GrayBack(GrayY(c))
    ELSE LET pal == GrayPalette(SinkDepth(sink))
         IN  GrayBack(pal[PaletteIndex(pal, c)])

Unset == <<>>

\* ---------------------------------------------------------- the engine
\* variant: the weights applied in the opposite order
RECURSIVE AccSum_WeightsReversed(_, _, _, _, _)
AccSum_WeightsReversed(e, h, w, j, i) ==
    IF i >= Size(e) THEN Fin(0, 1)
    ELSE LET rest == AccSum_WeightsReversed(e, h, w, j, i + 1)
             ent == Get(e, h, i)
         IN  IF ent = Nil THEN rest ELSE FAdd(FMul(ent[j], w[Size(e) - i]), rest)

\* the loop of AccumulatedError over the history slots i, i+1, ...
RECURSIVE AccSum(_, _, _, _, _)
AccSum(e, h, w, j, i) ==
    IF i >= Size(e) THEN Fin(0, 1)
    ELSE LET rest == AccSum(e, h, w, j, i + 1)
             ent == Get(e, h, i)
         IN  IF ent = Nil THEN rest ELSE FAdd(FMul(ent[j], w[i + 1]), rest)

AccumulatedError(e, h, w, ratio, numChannel) ==
    [j \in 1..numChannel |-> FDiv(AccSum(e, h, w, j, 0), ratio)]

\* variant: the error is taken from the adjusted colour
DitherPixel_FromProposed(img, b, px, py, accErr) ==
    LET sc == SrcAt(img.sp[1] + px, img.sp[2] + py)
        nc == [j \in 1..NumChannels |->
                  clamp(Add32(sc[j], ToInt32(Round(accErr[j]), b)))]
        dc == Quantize(img.sink, nc)
    IN  [source |-> sc,
         proposed |-> nc,
         stored |-> dc,
         error |-> [j \in 1..NumChannels |-> nc[j] - dc[j]]]

\* anyImage.DitherPixel: the source colour read, the colour proposed, the
\* colour read back and the error returned
DitherPixel(img, b, px, py, accErr) ==
    LET sc == SrcAt(img.sp[1] + px, img.sp[2] + py)
        nc == [j \in 1..NumChannels |->
                  clamp(Add32(sc[j], ToInt32(Round(accErr[j]), b)))]
        dc == Quantize(img.sink, nc)
    IN  [source |-> sc,
         proposed |-> nc,
         stored |-> dc,
         error |-> [j \in 1..NumChannels |-> sc[j] - dc[j]]]

\* variant: the lower edge is not checked
InBounds_NoBottom(px, py, size) == px >= 0 /\ px < size[1] /\ py >= 0

\* variant: the right edge is off by one
InBounds_RightInclusive(px, py, size) ==
    px >= 0 /\ px <= size[1] /\ py >= 0 /\ py < size[2]

InBounds(px, py, size) == px >= 0 /\ px < size[1] /\ py >= 0 /\ py < size[2]

\* variant: the level is not rounded up
Level_Floor(size) == log2(Max(size[1], size[2]))

\* variant: the level is always raised
Level_AlwaysUp(size) == log2(Max(size[1], size[2])) + 1

Level(size) ==
    LET sideLength == Max(size[1], size[2])
        l == log2(sideLength)
    IN  IF Pow(2, l) < sideLength THEN l + 1 ELSE l

M(d) == [op |-> "move", dir |-> d]
H(d) == [op |-> "call", dir |-> d]

\* variant: the UP and LEFT patterns exchanged
Base_UpLeftExchanged(dir) ==
    CASE dir = dirUP -> <<M(dirRIGHT), M(dirDOWN), M(dirLEFT)>>
      [] dir = dirRIGHT -> <<M(dirLEFT), M(dirUP), M(dirRIGHT)>>
      [] dir = dirLEFT -> <<M(dirDOWN), M(dirRIGHT), M(dirUP)>>
      [] dir = dirDOWN -> <<M(dirUP), M(dirLEFT), M(dirDOWN)>>
      [] OTHER -> <<>>

\* hilbertLevel, level == 1: three unit moves
Base(dir) ==
    CASE dir = dirLEFT -> <<M(dirRIGHT), M(dirDOWN), M(dirLEFT)>>
      [] dir = dirRIGHT -> <<M(dirLEFT), M(dirUP), M(dirRIGHT)>>
      [] dir = dirUP -> <<M(dirDOWN), M(dirRIGHT), M(dirUP)>>
      [] dir = dirDOWN -> <<M(dirUP), M(dirLEFT), M(dirDOWN)>>
      [] OTHER -> <<>>

\* hilbertLevel, level > 1: four sub-curves joined by three unit moves
Production(dir) ==
    CASE dir = dirLEFT ->
           <<H(dirUP), M(dirRIGHT), H(dirLEFT), M(dirDOWN),
             H(dirLEFT), M(dirLEFT), H(dirDOWN)>>
      [] dir = dirRIGHT ->
           <<H(dirDOWN), M(dirLEFT), H(dirRIGHT), M(dirUP),
             H(dirRIGHT), M(dirRIGHT), H(dirUP)>>
      [] dir = dirUP ->
           <<H(dirLEFT), M(dirDOWN), H(dirUP), M(dirRIGHT),
             H(dirUP), M(dirUP), H(dirRIGHT)>>
      [] dir = dirDOWN ->
           <<H(dirRIGHT), M(dirUP), H(dirDOWN), M(dirLEFT),
             H(dirDOWN), M(dirDOWN), H(dirLEFT)>>
      [] OTHER -> <<>>

\* variant: the base case taken one level too early
Body_BaseAtTwo(lv, dir) == IF lv <= 2 THEN Base(dir) ELSE Production(dir)

\* the statements of hilbertLevel(lv, dir), in order
Body(lv, dir) == IF lv = 1 THEN Base(dir) ELSE Production(dir)

\* variant: an invocation starts after its first statement
Frame_SkipFirst(lv, dir) == [level |-> lv, dir |-> dir, at |-> 2]

\* a hilbertLevel invocation about to run its first statement
Frame(lv, dir) == [level |-> lv, dir |-> dir, at |-> 1]

Top == stack[Len(stack)]
TopBody == Body(Top.level, Top.dir)
Advance(s) == [s EXCEPT ![Len(s)].at = @ + 1]

\* variant: up and down exchanged
StepY_Flipped(cy, dir) ==
    IF dir = dirUP THEN cy + 1 ELSE IF dir = dirDOWN THEN cy - 1 ELSE cy

\* move(): the cursor after the switch on dir
StepX(cx, dir) ==
    IF dir = dirLEFT THEN cx - 1 ELSE IF dir = dirRIGHT THEN cx + 1 ELSE cx
StepY(cy, dir) ==
    IF dir = dirUP THEN cy - 1 ELSE IF dir = dirDOWN THEN cy + 1 ELSE cy

\* variant: Dither starts every run from a reset Op
DitherEntry_Reset(cx, cy, e, h) ==
    [x |-> 0, y |-> 0, err |-> newErrorList(Len(e)), head |-> 0]

\* the cursor and history Dither works on, given those of the Op it is
\* called on: Dither assigns none of them before its first move()
DitherEntry(cx, cy, e, h) == [x |-> cx, y |-> cy, err |-> e, head |-> h]

\* variant: the drawer keeps one Op for all its calls
DrawerOp_Shared(cx, cy, e, h) ==
    IF e = <<>> THEN [x |-> 0, y |-> 0, err |-> newErrorList(DefaultQueue), head |-> 0]
    ELSE [x |-> cx, y |-> cy, err |-> e, head |-> h]

\* Drawer.Draw: the Op it draws with, whatever Op an earlier call used
DrawerOp(cx, cy, e, h) ==
    [x |-> 0, y |-> 0, err |-> newErrorList(DefaultQueue), head |-> 0]

\* variant: the output file follows the -o path
OutputFile_ByOutputPath(inputFilePath, outputFilePath) ==
    IF outputFilePath # "-" THEN outputFilePath ELSE "stdout"

\* main: the file the image is encoded to ("stdout" or the path opened)
OutputFile(inputFilePath, outputFilePath) ==
    IF inputFilePath # "-" THEN outputFilePath ELSE "stdout"

NoCli == [input |-> "-", output |-> "-", file |-> "none", written |-> "none"]
NoEntry == [x |-> 0, y |-> 0, err |-> <<>>, head |-> 0, visits |-> 0, dithered |-> 0]
NoPrev == [x |-> 0, y |-> 0, err |-> <<>>, head |-> 0, level |-> 0,
           dithered |-> <<>>, dst |-> [p \in {} |-> Unset]]
Blank(rDx, rDy) == [p \in (0..(rDx - 1)) \X (0..(rDy - 1)) |-> Unset]

\* ------------------------------------------------------------ actions
Init ==
    /\ pc = "new"
    /\ via = "none"
    /\ built = <<0, 0>>
    /\ Ratio = 0
    /\ Weights = <<>>
    /\ err = <<>>
    /\ head = 0
    /\ x = 0
    /\ y = 0
    /\ build \in Builds
    /\ image = NewImage(<<0, 0>>, <<0, 0>>, "identity")
    /\ dst = Blank(0, 0)
    /\ level = 0
    /\ stack = <<>>
    /\ run = 0
    /\ calls = 0
    /\ entry = NoEntry
    /\ prev = NoPrev
    /\ visits = <<>>
    /\ dirs = <<>>
    /\ dithered = <<>>
    /\ rotated = <<>>
    /\ cli = NoCli

\* NewOperation(queueSize, ratio): make() panics on a negative length, and
\* nothing else is checked
NewOperation ==
    /\ pc = "new"
    /\ \E queueSize \in QueueSizes, ratio \in Ratios :
        /\ built' = <<queueSize, ratio>>
        /\ IF queueSize < 0
             THEN /\ pc' = "panic"
                  /\ UNCHANGED <<Ratio, Weights, err>>
             ELSE /\ pc' = "ready"
                  /\ Ratio' = ratio
                  /\ Weights' = initWeights(queueSize, ratio)
                  /\ err' = newErrorList(queueSize)
    /\ via' = "op"
    /\ UNCHANGED <<head, x, y, build, image, dst, level, stack, run, calls,
                   entry, prev, visits, dirs, dithered, rotated, cli>>

\* Op.Dither up to its first call, on the Op (cx, cy, e, h)
Dither(img, op) ==
    /\ image' = img
    /\ level' = Level(img.size)
    /\ stack' = IF Level(img.size) > 0 THEN <<Frame(Level(img.size), dirUP)>> ELSE <<>>
    /\ x' = op.x
    /\ y' = op.y
    /\ err' = op.err
    /\ head' = op.head
    /\ pc' = "dither"

\* Op.Draw on an Op just built: NewImage, then Dither
Draw ==
    /\ pc = "ready"
    /\ \E rDx \in Sides, rDy \in Sides, sp \in SrcPoints, sink \in Sinks :
        /\ Dither(NewImage(<<rDx, rDy>>, sp, sink), DitherEntry(x, y, err, head))
        /\ dst' = Blank(rDx, rDy)
    /\ run' = 1
    /\ calls' = 1
    /\ entry' = [x |-> x', y |-> y', err |-> err', head |-> head',
                 visits |-> Len(visits), dithered |-> Len(dithered)]
    /\ UNCHANGED <<via, built, Ratio, Weights, build, prev, visits, dirs,
                   dithered, rotated, cli>>

\* Op.Draw called once more on the same Op, with the same arguments
DrawAgain ==
    /\ pc = "done"
    /\ via = "op"
    /\ run < MaxRuns
    /\ Dither(image, DitherEntry(x, y, err, head))
    /\ run' = run + 1
    /\ calls' = calls + 1
    /\ entry' = [x |-> x', y |-> y', err |-> err', head |-> head',
                 visits |-> Len(visits), dithered |-> Len(dithered)]
    /\ prev' = [x |-> x, y |-> y, err |-> err, head |-> head, level |-> level,
                dithered |-> dithered, dst |-> dst]
    /\ UNCHANGED <<via, built, Ratio, Weights, build, dst, visits, dirs,
                   dithered, rotated, cli>>

\* Riemersma.Draw (the default drawer): NewOperation(16, 16), then op.Draw
DrawerDraw ==
    /\ pc = "new"
    /\ \E rDx \in Sides, rDy \in Sides, sp \in SrcPoints, sink \in Sinks :
        /\ Dither(NewImage(<<rDx, rDy>>, sp, sink), DrawerOp(x, y, err, head))
        /\ dst' = Blank(rDx, rDy)
    /\ via' = "drawer"
    /\ built' = <<DefaultQueue, DefaultRatio>>
    /\ Ratio' = DefaultRatio
    /\ Weights' = initWeights(DefaultQueue, DefaultRatio)
    /\ run' = 1
    /\ calls' = 1
    /\ entry' = [x |-> x', y |-> y', err |-> err', head |-> head',
                 visits |-> 0, dithered |-> 0]
    /\ UNCHANGED <<build, prev, visits, dirs, dithered, rotated, cli>>

\* Riemersma.Draw called once more with the same source, rectangle and
\* source point, on a destination initialised as the first one was
DrawerDrawAgain ==
    /\ pc = "done"
    /\ via = "drawer"
    /\ calls < MaxRuns
    /\ Dither(image, DrawerOp(x, y, err, head))
    /\ dst' = [p \in DOMAIN dst |-> Unset]
    /\ built' = <<DefaultQueue, DefaultRatio>>
    /\ Ratio' = DefaultRatio
    /\ Weights' = initWeights(DefaultQueue, DefaultRatio)
    /\ run' = 1
    /\ calls' = calls + 1
    /\ entry' = [x |-> x', y |-> y', err |-> err', head |-> head',
                 visits |-> 0, dithered |-> 0]
    /\ prev' = [x |-> x, y |-> y, err |-> err, head |-> head, level |-> level,
                dithered |-> dithered, dst |-> dst]
    /\ visits' = <<>>
    /\ dirs' = <<>>
    /\ dithered' = <<>>
    /\ rotated' = <<>>
    /\ UNCHANGED <<via, build, cli>>

\* main with -help: usage, os.Exit(0)
MainHelp ==
    /\ pc = "new"
    /\ pc' = "exit"
    /\ via' = "main"
    /\ UNCHANGED <<built, Ratio, Weights, err, head, x, y, build, image, dst,
                   level, stack, run, calls, entry, prev, visits, dirs,
                   dithered, rotated, cli>>

\* main stops before an Op is built: ratio <= 0, an unsupported depth, a
\* file that cannot be opened, an input that does not decode
MainRejects ==
    /\ pc = "new"
    /\ \E ratio \in Ratios, colorDepth \in CliDepths,
          inputFilePath \in CliPaths, outputFilePath \in CliPaths,
          inputOpens \in BOOLEAN, outputOpens \in BOOLEAN, decodes \in BOOLEAN :
        /\ \/ ratio <= 0
           \/ colorDepth \notin {1, 2, 4, 8}
           \/ inputFilePath # "-" /\ ~inputOpens
           \/ inputFilePath # "-" /\ ~outputOpens
           \/ ~decodes
        /\ cli' = [input |-> inputFilePath, output |-> outputFilePath,
                   file |-> "none", written |-> "none"]
    /\ pc' = "panic"
    /\ via' = "main"
    /\ UNCHANGED <<built, Ratio, Weights, err, head, x, y, build, image, dst,
                   level, stack, run, calls, entry, prev, visits, dirs,
                   dithered, rotated>>

\* main: flags accepted, files opened, image decoded, destination set up,
\* NewOperation(int(queueSize), ratio) and Draw(dst, dst.Bounds(), src,
\* src.Bounds().Min) up to Dither's first call
Main ==
    /\ pc = "new"
    /\ \E ratio \in Ratios, queueSize \in CliQueueSizes, colorDepth \in CliDepths,
          inputFilePath \in CliPaths, outputFilePath \in CliPaths :
        /\ ratio > 0
        /\ colorDepth \in {1, 2, 4, 8}
        /\ cli' = [input |-> inputFilePath, output |-> outputFilePath,
                   file |-> OutputFile(inputFilePath, outputFilePath),
                   written |-> "none"]
        /\ built' = <<queueSize, ratio>>
        /\ Ratio' = ratio
        /\ Weights' = initWeights(queueSize, ratio)
        /\ Dither(NewImage(SrcMax, <<0, 0>>,
                           IF colorDepth = 8 THEN "gray"
                           ELSE IF colorDepth = 1 THEN "pal1"
                           ELSE IF colorDepth = 2 THEN "pal2" ELSE "pal4"),
                  DitherEntry(0, 0, newErrorList(queueSize), 0))
    /\ dst' = Blank(SrcMax[1], SrcMax[2])
    /\ via' = "main"
    /\ run' = 1
    /\ calls' = 1
    /\ entry' = [x |-> x', y |-> y', err |-> err', head |-> head',
                 visits |-> 0, dithered |-> 0]
    /\ UNCHANGED <<build, prev, visits, dirs, dithered, rotated>>

\* main: png.Encode / jpeg.Encode to outputFile.  A file opened by os.Open
\* is read-only, so encoding to it fails and main panics
Encode ==
    /\ pc = "done"
    /\ via = "main"
    /\ IF cli.file = "stdout"
         THEN /\ cli' = [cli EXCEPT !.written = "stdout"]
              /\ pc' = "exit"
         ELSE /\ cli' = cli
              /\ pc' = "panic"
    /\ UNCHANGED <<via, built, Ratio, Weights, err, head, x, y, build, image,
                   dst, level, stack, run, calls, entry, prev, visits, dirs,
                   dithered, rotated>>

\* Op.move(dir); nextPc, nextStack: the control state after a normal return
move(dir, nextPc, nextStack) ==
    /\ visits' = Append(visits, <<x, y>>)
    /\ dirs' = Append(dirs, dir)
    /\ IF InBounds(x, y, image.size)
         THEN LET acc == AccumulatedError(err, head, Weights, Ratio, NumChannels)
                  res == DitherPixel(image, build, x, y, acc)
              IN  /\ dst' = [dst EXCEPT ![<<x, y>>] = res.stored]
                  /\ dithered' = Append(dithered,
                        [x |-> x, y |-> y, acc |-> acc, source |-> res.source,
                         proposed |-> res.proposed, stored |-> res.stored,
                         error |-> res.error])
                  /\ IF head >= Len(err)
                       THEN \* Rotate indexes err[head]: out of range
                            /\ pc' = "panic"
                            /\ UNCHANGED <<err, head, rotated, x, y, stack>>
                       ELSE /\ err' = RotateErr(err, head, res.error)
                            /\ head' = RotateHead(err, head)
                            /\ rotated' = Append(rotated, res.error)
                            /\ pc' = nextPc
                            /\ stack' = nextStack
                            /\ x' = StepX(x, dir)
                            /\ y' = StepY(y, dir)
         ELSE /\ UNCHANGED <<dst, dithered, err, head, rotated>>
              /\ pc' = nextPc
              /\ stack' = nextStack
              /\ x' = StepX(x, dir)
              /\ y' = StepY(y, dir)
    /\ UNCHANGED <<via, built, Ratio, Weights, build, image, level, run,
                   calls, entry, prev, cli>>

\* hilbertLevel: the next statement is a recursive call
HilbertCall ==
    /\ pc = "dither"
    /\ stack # <<>>
    /\ Top.at <= Len(TopBody)
    /\ TopBody[Top.at].op = "call"
    /\ stack' = Append(Advance(stack), Frame(Top.level - 1, TopBody[Top.at].dir))
    /\ UNCHANGED <<pc, via, built, Ratio, Weights, err, head, x, y, build,
                   image, dst, level, run, calls, entry, prev, visits, dirs,
                   dithered, rotated, cli>>

\* hilbertLevel: the next statement is a move
HilbertMove ==
    /\ pc = "dither"
    /\ stack # <<>>
    /\ Top.at <= Len(TopBody)
    /\ TopBody[Top.at].op = "move"
    /\ move(TopBody[Top.at].dir, "dither", Advance(stack))

\* hilbertLevel returns
HilbertReturn ==
    /\ pc = "dither"
    /\ stack # <<>>
    /\ Top.at > Len(TopBody)
    /\ stack' = SubSeq(stack, 1, Len(stack) - 1)
    /\ UNCHANGED <<pc, via, built, Ratio, Weights, err, head, x, y, build,
                   image, dst, level, run, calls, entry, prev, visits, dirs,
                   dithered, rotated, cli>>

\* Dither's closing rs.move(dirNONE, image)
FinalMove ==
    /\ pc = "dither"
    /\ stack = <<>>
    /\ move(dirNONE, "done", <<>>)

Next ==
    \/ NewOperation
    \/ Draw
    \/ DrawAgain
    \/ DrawerDraw
    \/ DrawerDrawAgain
    \/ MainHelp
    \/ MainRejects
    \/ Main
    \/ Encode
    \/ HilbertCall
    \/ HilbertMove
    \/ HilbertReturn
    \/ FinalMove

Spec == Init /\ [][Next]_vars

\* a running Dither is about to call move(): from hilbertLevel, or as its
\* closing statement
MoveNext ==
    /\ pc = "dither"
    /\ \/ stack = <<>>
       \/ Top.at <= Len(TopBody) /\ TopBody[Top.at].op = "move"

\* the move() steps of a running Dither call
MoveStep == HilbertMove \/ FinalMove

\* Dither runs sequentially to its return: the statement it is at is
\* executed.  The last conjunct is WF_vars(MoveStep) with
\* ENABLED <<MoveStep>>_vars written out as MoveNext (a move() call is
\* possible exactly there, and always extends the visit log).
FairSpec ==
    /\ Spec
    /\ WF_vars(HilbertCall)
    /\ WF_vars(HilbertReturn)
    /\ ([]<>(~MoveNext) \/ []<><<MoveStep>>_vars)

TypeOK ==
    /\ pc \in {"new", "ready", "dither", "done", "panic", "exit"}
    /\ head \in 0..Max(MaxQueue, DefaultQueue)
    /\ run \in 0..MaxRuns
    /\ calls \in 0..MaxRuns
    /\ Len(stack) <= level

\* ------------------------------------------------------------- claims
Square(lv) == (0..(Pow(2, lv) - 1)) \X (0..(Pow(2, lv) - 1))
Pixels(size) == (0..(size[1] - 1)) \X (0..(size[2] - 1))
\* Dither has been called; Fresh: for the first time on this Op; OpBuilt:
\* NewOperation has been called
Started == run >= 1
Fresh == run = 1
OpBuilt == via = "op" \/ run >= 1
ZeroError == [j \in 1..NumChannels |-> 0]

\* C1: for level >= 1 the traversal started at (0,0), with the closing
\* move(dirNONE), enters move() on every coordinate of the 2^level square
\* exactly once: no coordinate twice, none outside the square, the first
\* one (0,0), and all 4^level of them once Dither has returned.
C1_HilbertVisitsEachOnce ==
    (Fresh /\ level >= 1) =>
        /\ \A i \in 1..Len(visits) : visits[i] \in Square(level)
        /\ \A i \in 1..Len(visits) : \A j \in 1..Len(visits) :
              i # j => visits[i] # visits[j]
        /\ visits # <<>> => visits[1] = <<0, 0>>
        /\ pc = "done" =>
              /\ Len(visits) = Pow(4, level)
              /\ {visits[i] : i \in 1..Len(visits)} = Square(level)

C1_Witness ==
    /\ pc = "done"
    /\ level = 3
    /\ Len(visits) = 64
    /\ visits[64] = <<7, 0>>

\* C2: for width >= 1 and height >= 1 no pixel is handed to DitherPixel
\* twice, every call is on a pixel of the image, and when Dither returns
\* every pixel of [0,width) x [0,height) has been dithered once and the
\* history has been rotated width*height times.
C2_EveryPixelDitheredOnce ==
    (Fresh /\ image.size[1] >= 1 /\ image.size[2] >= 1) =>
        /\ \A i \in 1..Len(dithered) :
              <<dithered[i].x, dithered[i].y>> \in Pixels(image.size)
        /\ \A i \in 1..Len(dithered) : \A j \in 1..Len(dithered) :
              i # j => <<dithered[i].x, dithered[i].y>> # <<dithered[j].x, dithered[j].y>>
        /\ pc = "done" =>
              /\ Len(dithered) = image.size[1] * image.size[2]
              /\ {<<dithered[i].x, dithered[i].y>> : i \in 1..Len(dithered)}
                    = Pixels(image.size)
              /\ Len(rotated) = image.size[1] * image.size[2]

C2_Witness ==
    /\ pc = "done"
    /\ image.size = <<3, 5>>
    /\ Len(dithered) = 15
    /\ Len(rotated) = 15

\* C3: a move() entered with the cursor outside [0,width) x [0,height)
\* changes neither the error history (slots, write cursor) nor the
\* destination, and makes no DitherPixel call.
C3_OutOfBoundsMoveIsSkipped ==
    [][(/\ pc = "dither"
        /\ visits' = Append(visits, <<x, y>>)
        /\ (x < 0 \/ x >= image.size[1] \/ y < 0 \/ y >= image.size[2]))
       => /\ err' = err
          /\ head' = head
          /\ dst' = dst
          /\ dithered' = dithered
          /\ rotated' = rotated
          /\ pc' # "panic"]_vars

C3_Witness ==
    /\ pc = "dither"
    /\ rotated # <<>>
    /\ visits # <<>>
    /\ LET v == visits[Len(visits)]
       IN  v[1] >= image.size[1] \/ v[2] >= image.size[2]
    /\ Len(visits) > Len(dithered)

\* C4 as stated: Get(i) is the i-th most recently written entry, so Get(0)
\* is the last write.
C4_GetZeroIsNewest ==
    (Started /\ Len(err) >= 1) =>
        \A i \in 0..(Len(err) - 1) :
            i < Len(rotated) => Get(err, head, i) = rotated[Len(rotated) - i]

\* C4 amended: Get(N-1-i) is the i-th most recently written entry, so
\* Get(N-1) is the last write and, after N rotations, Get(0) the oldest
\* one still held.
C4_GetLastIsNewest ==
    (Started /\ Len(err) >= 1) =>
        \A i \in 0..(Len(err) - 1) :
            i < Len(rotated) =>
                Get(err, head, (Len(err) - 1) - i) = rotated[Len(rotated) - i]

C4_Witness ==
    /\ Len(err) = 2
    /\ Len(rotated) = 2
    /\ rotated[1] # rotated[2]
    /\ Get(err, head, 0) = rotated[1]
    /\ Get(err, head, 1) = rotated[2]

\* C5: after k rotations the N entries Get(0..N-1) are the last min(k,N)
\* written entries, each as often as it was written, and N - min(k,N)
\* nil entries; the list keeps N slots and the write cursor stays in [0,N).
Kept == Min(Len(rotated), Len(err))
Held == {Get(err, head, i) : i \in 0..(Len(err) - 1)}
LastWritten == {rotated[j] : j \in ((Len(rotated) - Kept) + 1)..Len(rotated)}
C5_HistoryKeepsLastN ==
    (OpBuilt /\ built[1] >= 1) =>
        /\ Len(err) = built[1]
        /\ head \in 0..(Len(err) - 1)
        /\ Cardinality({i \in 0..(Len(err) - 1) : Get(err, head, i) = Nil})
              = Len(err) - Kept
        /\ \A v \in Held \cup LastWritten :
              v # Nil =>
                Cardinality({i \in 0..(Len(err) - 1) : Get(err, head, i) = v})
                  = Cardinality({j \in ((Len(rotated) - Kept) + 1)..Len(rotated) :
                                    rotated[j] = v})

C5_Witness ==
    /\ Len(err) = 2
    /\ Len(rotated) = 3
    /\ rotated[1] \notin Held
    /\ Held = {rotated[2], rotated[3]}

\* C6 as stated: NewOperation with historyLength < 1 is rejected when it is
\* called, so such an engine never reads or writes a pixel.
C6_ShortHistoryRejected ==
    (OpBuilt /\ built[1] < 1) => (pc = "panic" /\ dithered = <<>>)

\* C7 as stated: NewOperation with ratio <= 0 is rejected, no engine able
\* to dither is produced.
C7_NonPositiveRatioRejected ==
    (OpBuilt /\ built[2] <= 0) => (pc = "panic" /\ visits = <<>>)

\* C8: with width == 0 or height == 0 Dither makes no DitherPixel call,
\* leaves the history as constructed and does not fail.
C8_EmptyRegionDithersNothing ==
    (Started /\ (image.size[1] = 0 \/ image.size[2] = 0)) =>
        /\ dithered = <<>>
        /\ rotated = <<>>
        /\ err = newErrorList(built[1])
        /\ head = 0
        /\ \A p \in DOMAIN dst : dst[p] = Unset
        /\ pc # "panic"

C8_Witness ==
    /\ pc = "done"
    /\ image.size[1] = 0
    /\ image.size[2] = 3
    /\ Len(visits) = 16

\* C9 as stated: on a 1x1 image Dither computes level 0, makes no recursive
\* call and dithers the one pixel (0,0) with zero accumulated error.
C9_SinglePixelZeroError ==
    (Fresh /\ image.size = <<1, 1>>) =>
        /\ level = 0
        /\ stack = <<>>
        /\ \A i \in 1..Len(dithered) :
              /\ dithered[i].x = 0
              /\ dithered[i].y = 0
              /\ \A j \in 1..NumChannels : IsZero(dithered[i].acc[j])
        /\ pc = "done" => (Len(dithered) = 1 /\ visits = <<<<0, 0>>>>)

\* C9 for the engines the command line can build (ratio > 0)
C9_SinglePixelZeroError_PositiveRatio == built[2] > 0 => C9_SinglePixelZeroError

\* C10 as stated: with a sink that stores the proposed colour unchanged
\* every rotated error is zero and every accumulated error is zero.
C10_FaithfulSinkZeroError ==
    (Started /\ image.sink = "identity") =>
        /\ \A i \in 1..Len(rotated) : rotated[i] = ZeroError
        /\ \A i \in 1..Len(dithered) :
              \A j \in 1..NumChannels : IsZero(dithered[i].acc[j])

\* C10 for the engines the command line can build (ratio > 0)
C10_FaithfulSinkZeroError_PositiveRatio == built[2] > 0 => C10_FaithfulSinkZeroError

\* C11: on a 2x2 image (level 1, orientation UP) a fresh Op dithers the
\* pixels in the order (0,0), (0,1), (1,1), (1,0); the first three by the
\* moves of hilbertLevel, the last by the closing move(dirNONE).
HilbertOrder2x2 == <<<<0, 0>>, <<0, 1>>, <<1, 1>>, <<1, 0>>>>
C11_TwoByTwoOrder ==
    (Fresh /\ image.size = <<2, 2>>) =>
        /\ level = 1
        /\ Len(dithered) <= 4
        /\ \A i \in 1..Len(dithered) :
              <<dithered[i].x, dithered[i].y>> = HilbertOrder2x2[i]
        /\ pc = "dither" => Len(dithered) <= 3
        /\ pc = "done" =>
              /\ Len(dithered) = 4
              /\ Len(dirs) = 4
              /\ dirs[4] = dirNONE
              /\ visits[4] = <<1, 0>>

C11_Witness ==
    /\ Fresh
    /\ pc = "done"
    /\ image.size = <<2, 2>>
    /\ <<dithered[4].x, dithered[4].y>> = <<1, 0>>
    /\ dirs = <<dirDOWN, dirRIGHT, dirUP, dirNONE>>

\* C12: for capacity >= 1 and ratio > 0 initWeights returns capacity
\* weights, the first of them 1; with capacity 1 the construction does
\* not fail and the one weight is 1.
C12_FirstWeightIsOne ==
    (OpBuilt /\ built[1] >= 1 /\ built[2] > 0) =>
        /\ Len(Weights) = built[1]
        /\ Weights[1] = Fin(1, 1)
        /\ (via = "op" /\ run = 0) => pc = "ready"

C12_Witness ==
    /\ pc = "ready"
    /\ built = <<1, 2>>
    /\ Weights = <<Fin(1, 1)>>

\* C13: every call of the default drawer works on an Op of its own, built
\* with history 16 and ratio 16, cursor (0,0) and a history of nil
\* entries; a second call with the same arguments on a destination
\* initialised alike makes the same DitherPixel calls in the same order
\* and leaves the same destination.
C13_DrawerCallsAreIndependent ==
    via = "drawer" =>
        /\ built = <<DefaultQueue, DefaultRatio>>
        /\ Len(Weights) = 16
        /\ Ratio = 16
        /\ run = 1
        /\ entry.x = 0
        /\ entry.y = 0
        /\ entry.head = 0
        /\ Len(entry.err) = 16
        /\ \A i \in 1..16 : entry.err[i] = Nil
        /\ calls >= 2 =>
              /\ Len(dithered) <= Len(prev.dithered)
              /\ \A i \in 1..Len(dithered) : dithered[i] = prev.dithered[i]
              /\ pc = "done" => (dithered = prev.dithered /\ dst = prev.dst)

C13_Witness ==
    /\ via = "drawer"
    /\ calls = 2
    /\ pc = "done"
    /\ image.sink = "threshold"
    /\ Len(dithered) = 25
    /\ dst = prev.dst
    /\ prev.x = 7

\* C14 as stated: the encoded image goes to stdout exactly when the -o
\* path is "-", to the file named by -o otherwise, whatever the -i path.
C14_OutputFollowsOutputPath ==
    via = "main" =>
        /\ cli.file # "none" => (cli.file = "stdout" <=> cli.output = "-")
        /\ cli.written # "none" => (cli.written = "stdout" <=> cli.output = "-")
        /\ cli.file \notin {"none", "stdout"} => cli.file = cli.output

\* C15: for s = max(width, height) >= 1 the level Dither computes is the
\* least L >= 0 with 2^L >= s; it is 0 exactly when s <= 1.
C15_LevelIsCeilLog2 ==
    (Started /\ Max(image.size[1], image.size[2]) >= 1) =>
        /\ level >= 0
        /\ Pow(2, level) >= Max(image.size[1], image.size[2])
        /\ level > 0 => Pow(2, level - 1) < Max(image.size[1], image.size[2])
        /\ level = 0 <=> Max(image.size[1], image.size[2]) <= 1

C15_Witness ==
    /\ Started
    /\ image.size = <<3, 5>>
    /\ level = 3

\* the accumulated error of the k-th DitherPixel call of an Op, channel j,
\* when the i-th most recent of the errors rotated before it is
\* multiplied by Weights[WeightOf(i)]
RECURSIVE HistorySum(_, _, _, _)
HistorySum(k, j, i, newestFirst) ==
    IF i >= Min(k - 1, Len(err)) THEN Fin(0, 1)
    ELSE FAdd(FMul(rotated[(k - 1) - i][j],
                   Weights[IF newestFirst THEN i + 1 ELSE Len(err) - i]),
              HistorySum(k, j, i + 1, newestFirst))

C17_ErrorIsSourceMinusStored ==
    [][Len(dithered') = Len(dithered) + 1 =>
        LET d == dithered'[Len(dithered')]
        IN  /\ d.x = x /\ d.y = y
            /\ d.source = SrcAt(image.sp[1] + x, image.sp[2] + y)
            /\ d.stored = dst'[<<x, y>>]
            /\ \A j \in 1..NumChannels : d.error[j] = d.source[j] - d.stored[j]
            /\ d.acc = AccumulatedError(err, head, Weights, Ratio, NumChannels)
            /\ pc' # "panic" =>
                  /\ rotated' = Append(rotated, d.error)
                  /\ Len(err') = Len(err)
                  /\ Cardinality({i \in 1..Len(err) : err'[i] # err[i]}) <= 1
                  /\ Get(err', head', Len(err) - 1) = d.error]_vars

C17_Witness ==
    /\ dithered # <<>>
    /\ Len(rotated) = Len(dithered)
    /\ LET d == dithered[Len(dithered)]
       IN  /\ d.proposed # d.source
           /\ d.proposed[1] - d.stored[1] # d.error[1]
           /\ rotated[Len(rotated)] = d.error
           /\ d.error[1] = d.source[1] - d.stored[1]

\* the move() calls of the current Dither run
RunMoves == Len(visits) - entry.visits

\* C18: Dither terminates; the recursion is never deeper than level, a
\* returned run has made 4^level move() calls, of which exactly the last
\* is move(dirNONE), also when level is 0.
C18_DitherTerminates ==
    /\ [](Started =>
            /\ Len(stack) <= level
            /\ \A i \in 1..Len(stack) : stack[i].level = (level - i) + 1
            /\ RunMoves <= Pow(4, level)
            /\ pc = "dither" =>
                  \A i \in (entry.visits + 1)..Len(dirs) : dirs[i] # dirNONE
            /\ pc = "done" =>
                  /\ RunMoves = Pow(4, level)
                  /\ dirs[Len(dirs)] = dirNONE
                  /\ \A i \in (entry.visits + 1)..(Len(dirs) - 1) : dirs[i] # dirNONE)
    /\ (pc = "dither") ~> (pc # "dither")

C18_Witness ==
    /\ pc = "done"
    /\ level = 0
    /\ dirs = <<dirNONE>>
    /\ image.size = <<1, 1>>

\* C19: during and after the first Dither run of an Op the cursor is in
\* the square [0, 2^level) x [0, 2^level), so neither x nor y is negative.
C19_CursorStaysInSquare ==
    Fresh =>
        /\ x >= 0 /\ x < Pow(2, level)
        /\ y >= 0 /\ y < Pow(2, level)

C19_Witness ==
    /\ Fresh
    /\ pc = "done"
    /\ level = 3
    /\ <<x, y>> = <<7, 0>>
    /\ image.size = <<3, 5>>
    /\ \E i \in 1..Len(visits) : visits[i] = <<7, 7>>

\* C20: Dither resets neither the cursor nor the history: a first run of
\* level L >= 1 leaves the cursor at (2^L - 1, 0), and a further Dither on
\* the same Op is entered with the cursor and the history the previous
\* run left.
C20_OpIsSingleUse ==
    /\ (Fresh /\ pc = "done" /\ level >= 1) => <<x, y>> = <<Pow(2, level) - 1, 0>>
    /\ (via = "op" /\ run >= 2) =>
          /\ entry.x = prev.x
          /\ entry.y = prev.y
          /\ entry.err = prev.err
          /\ entry.head = prev.head
          /\ Len(visits) > entry.visits => visits[entry.visits + 1] = <<prev.x, prev.y>>
          /\ (run = 2 /\ prev.level >= 1) =>
                <<entry.x, entry.y>> = <<Pow(2, prev.level) - 1, 0>>

C20_Witness ==
    /\ via = "op"
    /\ run = 2
    /\ pc = "done"
    /\ level = 2
    /\ entry.x = 3
    /\ entry.y = 0
    /\ entry.err # newErrorList(Len(err))
    /\ Len(dithered) > entry.dithered
====
